---- MODULE Spec2Model ----
(***************************************************************************)
(* Model of the Zodika timeline engine.                                    *)
(*                                                                         *)
(*   engine/loader.js : preloadImages / preloadImage / decodeImage         *)
(*                      (bounded-concurrency preload pipeline) and         *)
(*                      normalizeManifest (duration clamp).                *)
(*   engine/core.js   : ZdkCore (#normalizeManifest, #findSceneIndexAt,    *)
(*                      start/loop/stop, scene mount/enter/exit/tick).     *)
(*                                                                         *)
(* Times are integers: one unit is 50 ms, so 0.1 s = 2, 0.25 s = 5 and     *)
(* 900 ms = 18.                                                            *)
(***************************************************************************)
EXTENDS Integers, Sequences, FiniteSets, TLC

VARIABLES
    \* ---- preload pipeline (loader.js preloadImages) ----
    ppc,          \* "created" before the executor's first next(), then "running"
    urls,         \* the urls argument (a sequence of url ids)
    concurrency,  \* opts.concurrency
    retry,        \* opts.retry
    queue,        \* const queue = [...urls]
    active,       \* let active
    resolved,     \* let resolved
    task,         \* per url: the preloadImage call made for it
    promise,      \* state of the promise returned by preloadImages
    resolveCalls, \* number of times resolve(true) was called
    logged,       \* number of failures passed to log() by the .catch handler
    started,      \* urls in the order queue.shift() returned them
    \* ---- manifests (loader.js normalizeManifest, core.js constructor) ----
    raw,          \* the raw manifest's scenes: a sequence of [t, d]
    loaded,       \* what the loader's normalizeManifest made of raw
    manifest,     \* this.manifest of ZdkCore, set by the constructor
    found,        \* the last #findSceneIndexAt call: its argument and result
    \* ---- playback (core.js start / loop / stop, scene lifecycle) ----
    layout,       \* the at offsets of scene.text and scene.callouts
    clock,        \* performance.now(), in units
    spc,          \* "idle" before the first start(), "warming" until a
                  \* start() call has resumed from its await, then "started"
    calls,        \* number of start() calls made by the host
    warm,         \* the start() calls at await #preloadAhead(0): for each the
                  \* number of its image requests that have not settled
                  \* (left) and that signalled an error (failed)
    running,      \* this._running
    frames,       \* number of requestAnimationFrame callbacks scheduled
    raf,          \* this._raf names one of the scheduled callbacks
    t0,           \* this._t0
    now,          \* this._now
    activeIndex,  \* this._activeIndex
    sceneNodes,   \* this._sceneNodes: scene index -> node id, 0 when absent
    nodes,        \* every scene node ever created, by id
    firedText,    \* this._firedText
    firedCallout, \* this._firedCallout
    pend,         \* #onSceneChange calls suspended at await #ensureSceneMounted
    timers,       \* the setTimeout callbacks scheduled by #exitScene
    stops,        \* number of stop() calls made by the host
    reveals,      \* history: the reveals of the current activation, per event
    finalShown,   \* history: what the last stop(true) left revealed
    exited,       \* history: the indexes #exitScene has been called with
    changes,      \* history: the #enterScene calls that found a node
    sinceStop     \* history: "stopped" after a stop() with no start() call
                  \* since, "ticked" once the loop has ticked in that state

pvars == <<ppc, urls, concurrency, retry, queue, active, resolved, task,
           promise, resolveCalls, logged, started>>

nvars == <<raw, loaded, manifest, found>>

cvars == <<layout, clock, spc, calls, warm, running, frames, raf, t0, now,
           activeIndex, sceneNodes, nodes, firedText, firedCallout, pend,
           timers, stops, reveals, finalShown, exited, changes, sinceStop>>

vars == <<pvars, nvars, cvars>>

(***************************************************************************)
(* Bounds                                                                  *)
(***************************************************************************)
MaxUrls == 5
MaxConc == 2
MaxRetry == 1
MaxBelow == 1
MaxScenes == 3
MaxLoaderScenes == 2
MaxPlayScenes == 2
MaxClock == 170
MaxFrameGap == 3
MaxStops == 1
MaxStarts == 2
MaxHostScenes == 1

Range(s) == {s[i] : i \in DOMAIN s}

(***************************************************************************)
(* Preload pipeline                                                        *)
(***************************************************************************)
Fail == {"error", "timeout"}

\* A preloadImage call: st is where the call is, attempt the loop variable,
\* lastErr the error of the last failed attempt, tries the number of
\* decodeImage calls made so far.  lastErr is kept while the call can still
\* read it (during the backoff and at the throw), and the locals of a call
\* that returned are dropped.
NoTask == [st |-> "queued", attempt |-> 0, lastErr |-> "none", tries |-> 0]

InFlight == {"loading", "decoding", "sleeping"}
Settled == {"fulfilled", "rejected"}

\* EnterAttempt with the loop test written attempt < retry.
EnterAttemptShort(t, a) ==
    IF a < retry
      THEN [t EXCEPT !.st = "loading", !.attempt = a, !.tries = @ + 1,
                     !.lastErr = "none"]
      ELSE [t EXCEPT !.st = "rejected", !.attempt = a]

\* preloadImage entered at loop index a: the loop test, then decodeImage, which
\* sets img.src and arms the timeout; past the last index the loop falls
\* through to the throw.
EnterAttempt(t, a) ==
    IF a <= retry
      THEN [t EXCEPT !.st = "loading", !.attempt = a, !.tries = @ + 1,
                     !.lastErr = "none"]
      ELSE [t EXCEPT !.st = "rejected", !.attempt = a]

\* await decodeImage() resolved: return true.
AttemptOk(t) == [NoTask EXCEPT !.st = "fulfilled"]

\* await decodeImage() rejected with kind k: catch, lastErr = err, sleep.
AttemptFailed(t, k) == [t EXCEPT !.st = "sleeping", !.lastErr = k]

\* MayStart with the bound written active <= concurrency.
MayStartInclusive(act, q) == act <= concurrency /\ q # <<>>

\* The guard of the while loop of next().
MayStart(act, q) == act < concurrency /\ q # <<>>

\* The url next() takes from the queue: queue.shift().
Take(q) == Head(q)
Rest(q) == Tail(q)

\* The while loop of next(): the state after it, from (queue, active, task,
\* started).
RECURSIVE Dispatch(_, _, _, _)
Dispatch(q, act, tk, st) ==
    IF MayStart(act, q)
      THEN LET u == Take(q)
           IN  Dispatch(Rest(q), act + 1,
                        [tk EXCEPT ![u] = EnterAttempt(tk[u], 0)],
                        Append(st, u))
      ELSE [queue |-> q, active |-> act, task |-> tk, started |-> st]

\* Finished without the active === 0 test.
FinishedQueueOnly(q, act) == q = <<>>

\* The test that guards resolve(true) in next().
Finished(q, act) == q = <<>> /\ act = 0

\* next(): resolve and return when nothing is queued or active, else dispatch.
CallNext(q, act, tk) ==
    IF Finished(q, act)
      THEN /\ promise' = "resolved"
           /\ resolveCalls' = resolveCalls + 1
           /\ queue' = q /\ active' = act /\ task' = tk
           /\ UNCHANGED started
      ELSE LET d == Dispatch(q, act, tk, started)
           IN  /\ queue' = d.queue /\ active' = d.active
               /\ task' = d.task /\ started' = d.started
               /\ UNCHANGED <<promise, resolveCalls>>

\* preloadImages called with a list of one of the given lengths and with one
\* of the given values of concurrency.
PreloadInitFrom(lens, concs) ==
    /\ ppc = "created"
    /\ \E n \in lens : urls = [i \in 1..n |-> i]
    /\ concurrency \in concs
    /\ retry \in 0..MaxRetry
    /\ queue = urls
    /\ active = 0
    /\ resolved = 0
    /\ task = [u \in Range(urls) |-> NoTask]
    /\ promise = "pending"
    /\ resolveCalls = 0
    /\ logged = 0
    /\ started = <<>>

PreloadInit == PreloadInitFrom(0..MaxUrls, 1..MaxConc)

\* No pipeline is running.
PreloadIdle ==
    /\ ppc = "idle" /\ urls = <<>> /\ concurrency = 0 /\ retry = 0
    /\ queue = <<>> /\ active = 0 /\ resolved = 0 /\ task = <<>>
    /\ promise = "pending" /\ resolveCalls = 0 /\ logged = 0 /\ started = <<>>

\* The promise executor: the first call of next().
PreloadStart ==
    /\ ppc = "created"
    /\ ppc' = "running"
    /\ CallNext(queue, active, task)
    /\ UNCHANGED <<urls, concurrency, retry, resolved, logged, nvars, cvars>>

\* img.onload with img.decode available: the timer is cleared and the attempt
\* now waits for img.decode() alone.
ImgLoad(u) ==
    /\ task[u].st = "loading"
    /\ task' = [task EXCEPT ![u].st = "decoding"]
    /\ UNCHANGED <<ppc, urls, concurrency, retry, queue, active, resolved,
                   promise, resolveCalls, logged, started, nvars, cvars>>

\* img.onload without img.decode: res(true) at once.
ImgLoadNoDecode(u) ==
    /\ task[u].st = "loading"
    /\ task' = [task EXCEPT ![u] = AttemptOk(@)]
    /\ UNCHANGED <<ppc, urls, concurrency, retry, queue, active, resolved,
                   promise, resolveCalls, logged, started, nvars, cvars>>

\* img.decode() settled: then and catch both call res(true).
DecodeSettle(u) ==
    /\ task[u].st = "decoding"
    /\ task' = [task EXCEPT ![u] = AttemptOk(@)]
    /\ UNCHANGED <<ppc, urls, concurrency, retry, queue, active, resolved,
                   promise, resolveCalls, logged, started, nvars, cvars>>

\* img.onerror: rej("image error").
ImgError(u) ==
    /\ task[u].st = "loading"
    /\ task' = [task EXCEPT ![u] = AttemptFailed(@, "error")]
    /\ UNCHANGED <<ppc, urls, concurrency, retry, queue, active, resolved,
                   promise, resolveCalls, logged, started, nvars, cvars>>

\* The setTimeout callback of decodeImage: rej("decode timeout").
DecodeTimeout(u) ==
    /\ task[u].st = "loading"
    /\ task' = [task EXCEPT ![u] = AttemptFailed(@, "timeout")]
    /\ UNCHANGED <<ppc, urls, concurrency, retry, queue, active, resolved,
                   promise, resolveCalls, logged, started, nvars, cvars>>

\* sleep(150 * attempt) is over: attempt++ and the loop test.
Wake(u) ==
    /\ task[u].st = "sleeping"
    /\ task' = [task EXCEPT ![u] = EnterAttempt(@, @.attempt + 1)]
    /\ UNCHANGED <<ppc, urls, concurrency, retry, queue, active, resolved,
                   promise, resolveCalls, logged, started, nvars, cvars>>

\* What the .catch handler does with a settled preloadImage promise: a
\* rejection is logged and swallowed.
Caught(st) == IF st = "rejected" THEN 1 ELSE 0

\* The settled call is dropped; only the counters remember it.
Discard(t) == [NoTask EXCEPT !.st = "done"]

\* Settle without the active-- of the finally handler.
SettleNoDecrement(u) ==
    /\ task[u].st \in Settled
    /\ logged' = logged + Caught(task[u].st)
    /\ resolved' = resolved + 1
    /\ CallNext(queue, active, [task EXCEPT ![u] = Discard(@)])
    /\ UNCHANGED <<ppc, urls, concurrency, retry, nvars, cvars>>

\* .catch(log).finally(...): active--, resolved++, next().
Settle(u) ==
    /\ task[u].st \in Settled
    /\ logged' = logged + Caught(task[u].st)
    /\ resolved' = resolved + 1
    /\ CallNext(queue, active - 1, [task EXCEPT ![u] = Discard(@)])
    /\ UNCHANGED <<ppc, urls, concurrency, retry, nvars, cvars>>

PreloadNext ==
    \/ PreloadStart
    \/ \E u \in Range(urls) : ImgLoad(u)
    \/ \E u \in Range(urls) : ImgLoadNoDecode(u)
    \/ \E u \in Range(urls) : DecodeSettle(u)
    \/ \E u \in Range(urls) : ImgError(u)
    \/ \E u \in Range(urls) : DecodeTimeout(u)
    \/ \E u \in Range(urls) : Wake(u)
    \/ \E u \in Range(urls) : Settle(u)


(***************************************************************************)
(* JavaScript values that a manifest's t and d can hold                    *)
(***************************************************************************)
Num(v) == [k |-> "number", v |-> v]
NaN == [k |-> "NaN", v |-> 0]
PosInf == [k |-> "Infinity", v |-> 1]
NegInf == [k |-> "Infinity", v |-> -1]
Undef == [k |-> "undefined", v |-> 0]

\* typeof x === "number"
TypeofNumber(x) == x.k \in {"number", "NaN", "Infinity"}

\* x used as a condition (x || 0, !x).
Truthy(x) ==
    CASE x.k = "number" -> x.v # 0
      [] x.k = "Infinity" -> TRUE
      [] OTHER -> FALSE

\* Number(x)
ToNumber(x) == IF TypeofNumber(x) THEN x ELSE NaN

\* isFinite(x) of a number.
IsFinite(x) == x.k = "number"

\* a < b and a <= b of two numbers: false when either is NaN.
JsLt(a, b) ==
    CASE a.k = "NaN" \/ b.k = "NaN" -> FALSE
      [] a.k = "number" /\ b.k = "number" -> a.v < b.v
      [] a.k = "Infinity" /\ b.k = "Infinity" -> a.v < b.v
      [] a.k = "Infinity" -> a.v < 0
      [] OTHER -> b.v > 0

JsLe(a, b) ==
    CASE a.k = "NaN" \/ b.k = "NaN" -> FALSE
      [] OTHER -> a = b \/ JsLt(a, b)

\* a + b of two numbers.
JsAdd(a, b) ==
    CASE a.k = "NaN" \/ b.k = "NaN" -> NaN
      [] a.k = "number" /\ b.k = "number" -> Num(a.v + b.v)
      [] a.k = "Infinity" /\ b.k = "Infinity" -> IF a.v = b.v THEN a ELSE NaN
      [] a.k = "Infinity" -> a
      [] OTHER -> b

\* Math.max(a, b)
MathMax(a, b) ==
    CASE a.k = "NaN" \/ b.k = "NaN" -> NaN
      [] JsLt(a, b) -> b
      [] OTHER -> a

(***************************************************************************)
(* Manifests                                                               *)
(***************************************************************************)
NotBuilt == [st |-> "none", scenes |-> <<>>]
Threw == [st |-> "throws", scenes |-> <<>>]
Built(sc) == [st |-> "ok", scenes |-> sc]

\* The 0.1 of Math.max(0.1, ...) in the loader, in units of 50 ms.
MinDur == 2

\* loader.js normalizeManifest, the duration of one scene: the clamp.
ClampDuration(d) == MathMax(Num(MinDur), ToNumber(IF Truthy(d) THEN d ELSE Num(0)))

\* loader.js normalizeManifest, the test that throws, on the clamped duration.
LoaderRejects(d) == ~Truthy(d) \/ ~IsFinite(d)

\* loader.js normalizeManifest: scenes.map(...), throwing at the first scene
\* whose clamped duration fails the test; t is copied as it is.
RECURSIVE LoaderMap(_, _, _)
LoaderMap(sc, i, out) ==
    IF i > Len(sc) THEN Built(out)
    ELSE LET d == ClampDuration(sc[i].d)
         IN  IF LoaderRejects(d) THEN Threw
             ELSE LoaderMap(sc, i + 1, Append(out, [t |-> sc[i].t, d |-> d]))

LoaderNormalize(sc) == LoaderMap(sc, 1, <<>>)

\* core.js #normalizeManifest, the test that throws.
CoreRejects(d) == ~TypeofNumber(d) \/ JsLe(d, Num(0))

\* ResolveStart that overwrites an explicit t.
ResolveStartAlways(t, cursor) == cursor

\* core.js #normalizeManifest: s.t is set to cursor when it is not a number.
ResolveStart(t, cursor) == IF TypeofNumber(t) THEN t ELSE cursor

\* NextCursor that adds the duration to the running cursor.
NextCursorRunning(t, d, cursor) == JsAdd(cursor, d)

\* core.js #normalizeManifest: cursor = s.t + s.d.
NextCursor(t, d, cursor) == JsAdd(t, d)

\* core.js #normalizeManifest: the forEach over the scenes.
RECURSIVE CoreEach(_, _, _, _)
CoreEach(sc, i, cursor, out) ==
    IF i > Len(sc) THEN Built(out)
    ELSE IF CoreRejects(sc[i].d) THEN Threw
    ELSE LET t == ResolveStart(sc[i].t, cursor)
         IN  CoreEach(sc, i + 1, NextCursor(t, sc[i].d, cursor),
                      Append(out, [t |-> t, d |-> sc[i].d]))

CoreNormalize(sc) == CoreEach(sc, 1, Num(0), <<>>)

\* FindFrom with the end of the interval included.
RECURSIVE FindFromInclusive(_, _, _)
FindFromInclusive(arr, i, t) ==
    IF i > Len(arr) THEN -1
    ELSE IF JsLe(arr[i].t, t) /\ JsLe(t, JsAdd(arr[i].t, arr[i].d)) THEN i - 1
    ELSE FindFromInclusive(arr, i + 1, t)

\* core.js #findSceneIndexAt: the for loop from array index i - 1 on (the
\* model's sequences start at 1, the result is the array index).
RECURSIVE FindFrom(_, _, _)
FindFrom(arr, i, t) ==
    IF i > Len(arr) THEN -1
    ELSE IF JsLe(arr[i].t, t) /\ JsLt(t, JsAdd(arr[i].t, arr[i].d)) THEN i - 1
    ELSE FindFrom(arr, i + 1, t)

FindSceneIndexAt(arr, t) == FindFrom(arr, 1, t)

NoCall == [t |-> Num(0), idx |-> -2]

\* What a scene handed to the ZdkCore constructor holds here: t omitted or a
\* number, d omitted, zero or positive.
CoreTs == {Undef, Num(0), Num(2)}
CoreDs == {Undef, Num(0), Num(2), Num(3)}

\* What a scene of a fetched manifest.json can hold as d (1e999 parses to
\* Infinity).
LoaderTs == {Undef, Num(0)}
LoaderDs == {Undef, Num(-1), Num(0), Num(1), Num(2), Num(3), PosInf, NegInf}

SeqsUpTo(S, n) == UNION {[1..k -> S] : k \in 0..n}

\* The times #findSceneIndexAt is asked about.
MaxTime == 9
QueryTimes == {Num(x) : x \in -1..MaxTime}

NormIdle ==
    /\ raw = <<>> /\ loaded = NotBuilt /\ manifest = NotBuilt /\ found = NoCall

NormInit ==
    /\ raw \in SeqsUpTo([t : CoreTs, d : CoreDs], MaxScenes)
    /\ loaded = NotBuilt
    /\ manifest = NotBuilt
    /\ found = NoCall

LoaderInit ==
    /\ raw \in SeqsUpTo([t : LoaderTs, d : LoaderDs], MaxLoaderScenes)
    /\ loaded = NotBuilt
    /\ manifest = NotBuilt
    /\ found = NoCall

\* loadProject step 2: manifest = normalizeManifest(raw, ...).
LoadManifest ==
    /\ loaded = NotBuilt /\ manifest = NotBuilt
    /\ loaded' = LoaderNormalize(raw)
    /\ UNCHANGED <<raw, manifest, found, pvars, cvars>>

\* app.js: new ZdkCore({manifest: applyTheme(manifest, ...)}) on the loader's
\* result; applyTheme copies the scenes unchanged.
ConstructLoaded ==
    /\ loaded.st = "ok" /\ manifest = NotBuilt
    /\ manifest' = CoreNormalize(loaded.scenes)
    /\ UNCHANGED <<raw, loaded, found, pvars, cvars>>

\* new ZdkCore({manifest}) on a manifest object built by the caller.
Construct ==
    /\ loaded = NotBuilt /\ manifest = NotBuilt
    /\ manifest' = CoreNormalize(raw)
    /\ UNCHANGED <<raw, loaded, found, pvars, cvars>>

\* A call of #findSceneIndexAt(t) on the constructed instance.
FindScene(t) ==
    /\ manifest.st = "ok"
    /\ found' = [t |-> t, idx |-> FindSceneIndexAt(manifest.scenes, t)]
    /\ UNCHANGED <<raw, loaded, manifest, pvars, cvars>>

(***************************************************************************)
(* Playback: ZdkCore start / loop / stop and the scene lifecycle           *)
(***************************************************************************)
\* The 0.25 s of the loop's end test and the 900 ms of #exitScene, in units.
Grace == 5
RemoveDelay == 18

\* What the scenes of a played manifest hold: t omitted or explicit, a short
\* and a long d; every scene carries the same text and callout offsets.
PlayTs == {Undef, Num(0), Num(1)}
PlayDs == {Num(2), Num(4)}
Layouts == {[text |-> <<0>>, callouts |-> <<1>>],
            [text |-> <<1>>, callouts |-> <<0>>]}

\* The spec's three-scene schedule: durations 2 s, 3 s and 2 s without t,
\* which resolve to [0,2), [2,5) and [5,7).
ThreeScenes == <<[t |-> Undef, d |-> Num(40)], [t |-> Undef, d |-> Num(60)],
                 [t |-> Undef, d |-> Num(40)]>>

\* Three consecutive scenes of 0.1 s each, shorter than the removal delay.
ShortScenes == <<[t |-> Undef, d |-> Num(2)], [t |-> Undef, d |-> Num(2)],
                 [t |-> Undef, d |-> Num(2)]>>

Scenarios == {ThreeScenes}

\* Schedules with explicit, overlapping t in which scene 1 is left and
\* becomes active again: scene 0 covers [0.05, 0.15 s) inside scene 1, which
\* covers [0, 1.2 s) in the first and [0, 0.8 s) in the second.
RevisitOnce == <<[t |-> Num(1), d |-> Num(2)], [t |-> Num(0), d |-> Num(24)]>>
RevisitEarly == <<[t |-> Num(1), d |-> Num(2)], [t |-> Num(0), d |-> Num(16)]>>

\* A schedule whose scene of highest index is not the one that ends last:
\* scene 0 covers [0, 0.6 s) and scene 1 covers [0, 0.1 s).
LastEndsFirst == <<[t |-> Num(0), d |-> Num(12)], [t |-> Num(0), d |-> Num(2)]>>

\* The keys of the fired sets: `${index}#${idx}` and `${index}#c${idx}`.
TextKey(index, idx) == <<index, "", idx>>
CalloutKey(index, idx) == <<index, "c", idx>>

LastIdx == Len(manifest.scenes) - 1

\* History of one event in the current activation: n counts its reveals (up
\* to 2), first tells whether the first tick with tLocal >= at revealed it.
\* History of the activation: entered tells whether #enterScene has been
\* called for the active index since it became active, early whether
\* #tickScene fired an event before that, and ticked whether #tickScene has
\* run since the last such #enterScene call.
NoReveal == [n |-> 0, first |-> "none"]
NoReveals == [text |-> [i \in DOMAIN layout.text |-> NoReveal],
              callouts |-> [i \in DOMAIN layout.callouts |-> NoReveal],
              entered |-> FALSE, early |-> FALSE, ticked |-> FALSE]

\* The history notes an #enterScene call for the active index.
Entered(c) == [c EXCEPT !.reveals.entered = TRUE, !.reveals.ticked = FALSE]

Noted(r, fires, due) ==
    [n |-> IF fires /\ r.n < 2 THEN r.n + 1 ELSE r.n,
     first |-> IF r.first = "none" /\ due
                 THEN (IF fires THEN "yes" ELSE "no")
                 ELSE r.first]

\* The part of the instance's state that the scene methods read and write.
Cur ==
    [sceneNodes |-> sceneNodes, nodes |-> nodes, firedText |-> firedText,
     firedCallout |-> firedCallout, pend |-> pend, timers |-> timers,
     reveals |-> reveals, finalShown |-> finalShown, exited |-> exited,
     changes |-> changes]

Commit(c) ==
    /\ sceneNodes' = c.sceneNodes
    /\ nodes' = c.nodes
    /\ firedText' = c.firedText
    /\ firedCallout' = c.firedCallout
    /\ pend' = c.pend
    /\ timers' = c.timers
    /\ reveals' = c.reveals
    /\ finalShown' = c.finalShown
    /\ exited' = c.exited
    /\ changes' = c.changes

\* #ensureSceneMounted, the DOM it builds: the container is appended to the
\* media layer, the image starts loading (or is complete at once), and with
\* finalize every text and callout element gets is-in.  img is "settled"
\* once the image is complete or has signalled load or error.
NewNode(index, finalize, complete) ==
    [index |-> index, attached |-> TRUE,
     img |-> IF complete THEN "settled" ELSE "loading",
     textIn |-> IF finalize THEN DOMAIN layout.text ELSE {},
     calloutIn |-> IF finalize THEN DOMAIN layout.callouts ELSE {}]

\* #ensureSceneMounted up to its await: a registered index returns at once,
\* otherwise the node is created and registered.
EnsureSceneMounted(c, index, finalize, complete) ==
    IF c.sceneNodes[index] # 0 THEN c
    ELSE [c EXCEPT !.nodes = Append(@, NewNode(index, finalize, complete)),
                   !.sceneNodes[index] = Len(c.nodes) + 1]

\* Whether every text and callout element of a node carries is-in.
AllIn(node) ==
    /\ node.textIn = DOMAIN layout.text
    /\ node.calloutIn = DOMAIN layout.callouts

\* stop(true), the finalize part: #ensureSceneMounted(lastIdx, true).  The
\* history notes whether the last scene's node shows all its events when the
\* call returns.
StopToEnd(c, complete) ==
    LET m == EnsureSceneMounted(c, LastIdx, TRUE, complete)
    IN  [m EXCEPT !.finalShown =
                      IF AllIn(m.nodes[m.sceneNodes[LastIdx]])
                        THEN "all" ELSE "part"]

\* #exitScene: without a registered node nothing, otherwise the removal of
\* that node is scheduled 900 ms from now.  The history notes the call.
ExitScene(c, index) ==
    IF c.sceneNodes[index] = 0 THEN [c EXCEPT !.exited = @ \cup {index}]
    ELSE [c EXCEPT !.timers = Append(@, [index |-> index,
                                         node |-> c.sceneNodes[index],
                                         due |-> clock + RemoveDelay]),
                   !.exited = @ \cup {index}]

\* The keys of scene index that a pair of fired sets holds, and the keys of
\* the other scenes in one fired set.
KeysOf(index, ft, fc) == {k \in ft \cup fc : k[1] = index}
OtherKeys(index, fired) == {k \in fired : k[1] # index}

\* #enterScene, called by the #onSceneChange(prevIdx, index) that mounted the
\* scene: without a registered node nothing; otherwise `${index}#${idx}` is
\* deleted from both fired sets for the node's text and callout idx, and
\* is-in is removed from all its text and callout elements.  The history
\* notes the call: whether #exitScene(prevIdx) has been called, what the
\* node's image was doing, and which keys of the scene were left.
EnterScene(c, prevIdx, index) ==
    IF c.sceneNodes[index] = 0 THEN c
    ELSE LET ft == c.firedText \ {TextKey(index, i) : i \in DOMAIN layout.text}
             fc == c.firedCallout
                     \ {TextKey(index, i) : i \in DOMAIN layout.callouts}
         IN  [c EXCEPT
                !.firedText = ft,
                !.firedCallout = fc,
                !.nodes[c.sceneNodes[index]].textIn = {},
                !.nodes[c.sceneNodes[index]].calloutIn = {},
                !.changes = @ \cup {[prev |-> prevIdx, next |-> index,
                                     exitFirst |-> prevIdx \in c.exited,
                                     img |-> c.nodes[c.sceneNodes[index]].img,
                                     kept |-> KeysOf(index, ft, fc),
                                     others |->
                                         /\ OtherKeys(index, ft)
                                              = OtherKeys(index, c.firedText)
                                         /\ OtherKeys(index, fc)
                                              = OtherKeys(index,
                                                          c.firedCallout)]}]

\* #tickScene: without a registered node nothing; otherwise every text and
\* callout whose key is not in its fired set and whose at has been reached
\* gets is-in and its key is added.
TickScene(c, index, tnow) ==
    LET tLocal == tnow - manifest.scenes[index + 1].t.v
        node == c.sceneNodes[index]
        dueT == {i \in DOMAIN layout.text : tLocal >= layout.text[i]}
        dueC == {i \in DOMAIN layout.callouts : tLocal >= layout.callouts[i]}
        fireT == IF node = 0 THEN {}
                 ELSE {i \in dueT : TextKey(index, i) \notin c.firedText}
        fireC == IF node = 0 THEN {}
                 ELSE {i \in dueC : CalloutKey(index, i) \notin c.firedCallout}
        marked == IF node = 0 THEN c
                  ELSE [c EXCEPT
                          !.nodes[node].textIn = @ \cup fireT,
                          !.nodes[node].calloutIn = @ \cup fireC,
                          !.firedText = @ \cup {TextKey(index, i) : i \in fireT},
                          !.firedCallout =
                              @ \cup {CalloutKey(index, i) : i \in fireC}]
    IN  [marked EXCEPT
           !.reveals.text =
               [i \in DOMAIN @ |-> Noted(@[i], i \in fireT, i \in dueT)],
           !.reveals.callouts =
               [i \in DOMAIN @ |-> Noted(@[i], i \in fireC, i \in dueC)],
           !.reveals.early =
               @ \/ (~c.reveals.entered /\ fireT \cup fireC # {}),
           !.reveals.ticked = c.reveals.entered]

\* #onSceneChange that does not call #exitScene.
OnSceneChangeNoExit(c, prevIdx, nextIdx, complete) ==
    LET waits == nextIdx >= 0 /\ c.sceneNodes[nextIdx] = 0 /\ ~complete
        mounted == IF nextIdx >= 0
                     THEN EnsureSceneMounted(c, nextIdx, FALSE, complete)
                     ELSE c
    IN  IF waits
          THEN [mounted EXCEPT !.pend = @ \cup {[prev |-> prevIdx,
                                                 index |-> nextIdx,
                                                 node |-> Len(mounted.nodes)]}]
          ELSE mounted

\* #onSceneChange up to its await: the previous scene exits, the next one is
\* mounted; when the mount has to wait for the image the call is suspended
\* on the node it created.
OnSceneChange(c, prevIdx, nextIdx, complete) ==
    LET left == IF prevIdx >= 0 THEN ExitScene(c, prevIdx) ELSE c
        waits == nextIdx >= 0 /\ left.sceneNodes[nextIdx] = 0 /\ ~complete
        mounted == IF nextIdx >= 0
                     THEN EnsureSceneMounted(left, nextIdx, FALSE, complete)
                     ELSE left
    IN  IF waits
          THEN [mounted EXCEPT !.pend = @ \cup {[prev |-> prevIdx,
                                                 index |-> nextIdx,
                                                 node |-> Len(mounted.nodes)]}]
          ELSE mounted

\* Whether that #onSceneChange call resumes right after the current callback
\* (its await was on a mount that returned without waiting).
ResumesAtOnce(c, nextIdx, complete) ==
    nextIdx >= 0 /\ (c.sceneNodes[nextIdx] # 0 \/ complete)

\* PastEnd without the grace.
PastEndNoGrace(tnow) ==
    LET last == manifest.scenes[Len(manifest.scenes)]
    IN  JsLt(JsAdd(last.t, last.d), Num(tnow))

\* loop's end test: this._now > last.t + last.d + 0.25.
PastEnd(tnow) ==
    LET last == manifest.scenes[Len(manifest.scenes)]
    IN  JsLt(JsAdd(JsAdd(last.t, last.d), Num(Grace)), Num(tnow))

PlayIdle ==
    /\ layout = [text |-> <<>>, callouts |-> <<>>]
    /\ clock = 0 /\ spc = "idle" /\ running = FALSE /\ raf = FALSE
    /\ calls = 0 /\ warm = <<>> /\ frames = 0 /\ sinceStop = "none"
    /\ t0 = 0 /\ now = 0 /\ activeIndex = -1
    /\ sceneNodes = <<>> /\ nodes = <<>>
    /\ firedText = {} /\ firedCallout = {}
    /\ pend = {} /\ timers = <<>> /\ stops = 0
    /\ reveals = NoReveals
    /\ finalShown = "none"
    /\ exited = {} /\ changes = {}

\* A ZdkCore built from one of the given manifests, whose playback ends
\* within MaxClock.
PlayInitFrom(raws) ==
    /\ raw \in raws
    /\ manifest = CoreNormalize(raw)
    /\ PastEnd(MaxClock)
    /\ loaded = NotBuilt /\ found = NoCall
    /\ layout \in Layouts
    /\ clock = 0 /\ spc = "idle" /\ running = FALSE /\ raf = FALSE
    /\ calls = 0 /\ warm = <<>> /\ frames = 0 /\ sinceStop = "none"
    /\ t0 = 0 /\ now = 0 /\ activeIndex = -1
    /\ sceneNodes = [i \in 0..(Len(raw) - 1) |-> 0] /\ nodes = <<>>
    /\ firedText = {} /\ firedCallout = {}
    /\ pend = {} /\ timers = <<>> /\ stops = 0
    /\ reveals = NoReveals
    /\ finalShown = "none"
    /\ exited = {} /\ changes = {}

\* A ZdkCore built from a manifest of 1..MaxPlayScenes scenes, or from one of
\* the scenarios.
PlayInit ==
    PlayInitFrom((SeqsUpTo([t : PlayTs, d : PlayDs], MaxPlayScenes) \ {<<>>})
                     \cup Scenarios)

\* #preloadAhead(0): one image request for each of the first two scenes.
WarmCount == IF Len(manifest.scenes) < 2 THEN Len(manifest.scenes) ELSE 2

\* The sequence q without its k-th element.
Without(q, k) ==
    [i \in 1..(Len(q) - 1) |-> IF i < k THEN q[i] ELSE q[i + 1]]

\* The host's first call of start(): it runs up to await #preloadAhead(0).
StartCall ==
    /\ spc = "idle"
    /\ spc' = "warming"
    /\ calls' = calls + 1
    /\ warm' = Append(warm, [left |-> WarmCount, failed |-> 0])
    /\ sinceStop' = "none"
    /\ UNCHANGED <<layout, clock, running, frames, raf, t0, now, activeIndex,
                   sceneNodes, nodes, firedText, firedCallout, pend, timers,
                   stops, reveals, finalShown, exited, changes, nvars, pvars>>

\* A further call of start() on the same instance.
StartAgain ==
    /\ spc # "idle"
    /\ calls < MaxStarts
    /\ calls' = calls + 1
    /\ warm' = Append(warm, [left |-> WarmCount, failed |-> 0])
    /\ sinceStop' = "none"
    /\ UNCHANGED <<layout, clock, spc, running, frames, raf, t0, now,
                   activeIndex, sceneNodes, nodes, firedText, firedCallout,
                   pend, timers, stops, reveals, finalShown, exited, changes, nvars, pvars>>

\* The load (ok) or the error event of an image requested by
\* #preloadAhead(0): #preloadImage resolves or rejects, and the rejection is
\* caught.
WarmSettles(k, ok) ==
    /\ k \in DOMAIN warm
    /\ warm[k].left > 0
    /\ warm' = [warm EXCEPT ![k].left = @ - 1,
                            ![k].failed = IF ok THEN @ ELSE @ + 1]
    /\ UNCHANGED <<layout, clock, spc, calls, running, frames, raf, t0, now,
                   activeIndex, sceneNodes, nodes, firedText, firedCallout,
                   pend, timers, stops, reveals, finalShown, exited, changes, sinceStop, nvars,
                   pvars>>

\* A warm-up that goes on only when every image has loaded.
WarmDoneAllLoaded(w) == w.left = 0 /\ w.failed = 0

\* await #preloadAhead(0) is over: Promise.all of the caught #preloadImage
\* promises fulfils once each image has signalled load or error.
WarmDone(w) == w.left = 0

\* A start() call resumes after its warm-up: the playback state is reset and
\* the first frame of a new loop is requested.
StartResume(k) ==
    /\ k \in DOMAIN warm
    /\ WarmDone(warm[k])
    /\ warm' = Without(warm, k)
    /\ spc' = "started"
    /\ running' = TRUE
    /\ t0' = clock
    /\ now' = 0
    /\ activeIndex' = -1
    /\ firedText' = {}
    /\ firedCallout' = {}
    /\ frames' = frames + 1
    /\ raf' = TRUE
    /\ reveals' = NoReveals
    /\ UNCHANGED <<layout, clock, calls, sceneNodes, nodes, pend, timers,
                   stops, finalShown, exited, changes, sinceStop, nvars, pvars>>

\* The earliest due time of the scheduled timers.
NextDue == CHOOSE d \in {timers[k].due : k \in DOMAIN timers} :
               \A k \in DOMAIN timers : d <= timers[k].due

\* Time passes while a frame or a timer is scheduled.  With a frame
\* scheduled it passes unit by unit, frames being at most MaxFrameGap apart;
\* with only timers left it passes to the next due time.  A timer callback
\* runs within the unit it is due in.
Advance ==
    /\ spc = "started"
    /\ frames > 0 \/ timers # <<>>
    /\ frames > 0 => clock - (t0 + now) < MaxFrameGap
    /\ \A k \in DOMAIN timers : clock < timers[k].due
    /\ clock' = IF frames > 0 THEN clock + 1 ELSE NextDue
    /\ clock' <= MaxClock
    /\ UNCHANGED <<layout, spc, calls, warm, running, frames, raf, t0, now,
                   activeIndex, sceneNodes, nodes, firedText, firedCallout,
                   pend, timers, stops, reveals, finalShown, exited, changes, sinceStop, nvars,
                   pvars>>

\* A frame callback that runs only while no scene mount is pending.
FrameRunsWhenMounted(own) ==
    /\ pend = {}
    /\ IF own THEN raf ELSE frames > (IF raf THEN 1 ELSE 0)

\* A requested frame callback can run: the one this._raf names, or one
\* requested by another loop.  The loop calls #onSceneChange without awaiting
\* it, so a suspended scene change does not hold the next request back.
FrameRuns(own) ==
    IF own THEN raf ELSE frames > (IF raf THEN 1 ELSE 0)

\* A frame callback loop(ts) with ts = clock, followed by the microtasks it
\* leaves behind: the scene change (when the index changed), #tickScene, the
\* end test with stop(true), and the resumed #onSceneChange when its mount
\* did not wait.  own says whether the callback is the one this._raf names
\* (another loop's callback is not); complete and completeLast say whether
\* the image of a node created here is complete at once.
Tick(own, complete, completeLast) ==
    /\ FrameRuns(own)
    /\ IF ~running
         THEN /\ frames' = frames - 1
              /\ raf' = (raf /\ ~own)
              /\ UNCHANGED <<running, now, activeIndex, sceneNodes, nodes,
                             firedText, firedCallout, pend, timers, reveals,
                             finalShown, exited, changes, sinceStop>>
         ELSE LET tnow == clock - t0
                  idx == FindSceneIndexAt(manifest.scenes, Num(tnow))
                  changed == idx # activeIndex
                  switched ==
                      IF changed
                        THEN [OnSceneChange(Cur, activeIndex, idx, complete)
                                EXCEPT !.reveals = NoReveals]
                        ELSE Cur
                  ticked == IF idx >= 0 THEN TickScene(switched, idx, tnow)
                            ELSE switched
                  ended == PastEnd(tnow)
                  stopped ==
                      IF ended THEN StopToEnd(ticked, completeLast)
                      ELSE ticked
                  entered ==
                      IF changed /\ ResumesAtOnce(Cur, idx, complete)
                        THEN Entered(EnterScene(stopped, activeIndex, idx))
                        ELSE stopped
              IN  /\ now' = tnow
                  /\ activeIndex' = idx
                  /\ running' = ~ended
                  /\ frames' = IF ~ended THEN frames
                               ELSE IF raf /\ ~own THEN frames - 2
                               ELSE frames - 1
                  /\ raf' = ~ended
                  /\ Commit(entered)
                  /\ sinceStop' = IF sinceStop = "stopped" THEN "ticked"
                                  ELSE sinceStop
    /\ UNCHANGED <<layout, clock, spc, calls, warm, t0, stops, nvars, pvars>>

\* The load or the error event of a node's image (#waitImage resolves on
\* either); an #onSceneChange call suspended on that node resumes with
\* #enterScene.
ImageSettles(n) ==
    /\ n \in DOMAIN nodes
    /\ nodes[n].img = "loading"
    /\ LET waiting == {w \in pend : w.node = n}
           settled == [Cur EXCEPT
                         !.nodes[n].img = "settled",
                         !.pend = @ \ waiting]
           resumed == EnterScene(settled, (CHOOSE w \in waiting : TRUE).prev,
                                 nodes[n].index)
       IN  Commit(IF waiting = {} THEN settled
                  ELSE IF nodes[n].index = activeIndex THEN Entered(resumed)
                  ELSE resumed)
    /\ UNCHANGED <<layout, clock, spc, calls, warm, running, frames, raf, t0,
                   now, activeIndex, stops, sinceStop, nvars, pvars>>

\* The setTimeout callback of #exitScene: the node it captured is taken out
\* of the DOM and whatever is registered under the index is deleted.
RemoveNode(k) ==
    /\ k \in DOMAIN timers
    /\ clock >= timers[k].due
    /\ nodes' = [nodes EXCEPT ![timers[k].node].attached = FALSE]
    /\ sceneNodes' = [sceneNodes EXCEPT ![timers[k].index] = 0]
    /\ timers' = Without(timers, k)
    /\ UNCHANGED <<layout, clock, spc, calls, warm, running, frames, raf, t0,
                   now, activeIndex, firedText, firedCallout, pend, stops,
                   reveals, finalShown, exited, changes, sinceStop, nvars, pvars>>

\* The host calls stop(toEnd): the callback this._raf names is cancelled.
StopCall(toEnd, complete) ==
    /\ stops < MaxStops
    /\ stops' = stops + 1
    /\ frames' = IF raf THEN frames - 1 ELSE frames
    /\ raf' = FALSE
    /\ running' = FALSE
    /\ sinceStop' = "stopped"
    /\ Commit(IF toEnd THEN StopToEnd(Cur, complete) ELSE Cur)
    /\ UNCHANGED <<layout, clock, spc, calls, warm, t0, now, activeIndex,
                   nvars, pvars>>

PlayNext ==
    \/ StartCall
    \/ \E k \in DOMAIN warm, ok \in BOOLEAN : WarmSettles(k, ok)
    \/ \E k \in DOMAIN warm : StartResume(k)
    \/ Advance
    \/ \E own, complete, completeLast \in BOOLEAN :
         Tick(own, complete, completeLast)
    \/ \E n \in DOMAIN nodes : ImageSettles(n)
    \/ \E k \in DOMAIN timers : RemoveNode(k)

PlaySpecInit == PlayInit /\ PreloadIdle

\* An instance built from a manifest of at most MaxHostScenes scenes.
HostSpecInit == PlaySpecInit /\ Len(raw) <= MaxHostScenes

\* Playback that only the end of the timeline stops.
PlaySpec == PlaySpecInit /\ [][PlayNext]_vars

ShortSpecInit == PlayInitFrom({ShortScenes}) /\ PreloadIdle

RevisitSpecInit ==
    PlayInitFrom({RevisitOnce, RevisitEarly, LastEndsFirst}) /\ PreloadIdle

\* Playback of the schedules with overlapping scenes.
RevisitSpec == RevisitSpecInit /\ [][PlayNext]_vars

\* Playback of the three short scenes.
ShortSpec == ShortSpecInit /\ [][PlayNext]_vars

HostNext ==
    \/ PlayNext
    \/ \E toEnd, complete \in BOOLEAN : StopCall(toEnd, complete)

\* Playback that the host may also stop, at any moment.
HostSpec == HostSpecInit /\ [][HostNext]_vars

RestartNext ==
    \/ PlayNext
    \/ StartAgain

\* An instance built from a manifest of one 0.1 s scene without start time.
RestartSpecInit == HostSpecInit /\ raw[1].t = Undef /\ raw[1].d = Num(2)

\* Playback on which the host calls start() more than once.
RestartSpec == RestartSpecInit /\ [][RestartNext]_vars

\* What the browser and the host are sure to do: the host calls start(), a
\* start() whose warm-up has settled resumes, time passes, and every frame
\* and timer callback that is due runs.  Nothing makes an image signal load
\* or error: #preloadImage (lines 469-478) and #waitImage (480-486) set no
\* timer and make no further attempt.
WarmFairness ==
    /\ WF_vars(StartCall)
    /\ WF_vars(\E k \in DOMAIN warm : StartResume(k))
    /\ WF_vars(Advance)
    /\ WF_vars(\E own, complete, completeLast \in BOOLEAN :
                  Tick(own, complete, completeLast))
    /\ WF_vars(\E k \in DOMAIN timers : RemoveNode(k))

\* Playback of one scene in which every callback that is due runs.
WarmFairSpec == HostSpecInit /\ [][PlayNext]_vars /\ WarmFairness

PreloadSpecInit == PreloadInit /\ NormIdle /\ PlayIdle

PreloadSpec == PreloadSpecInit /\ [][PreloadNext]_vars

\* Every attempt settles and every timer and promise callback runs.
PreloadFairSpec == PreloadSpec /\ WF_vars(PreloadNext)

\* What is sure to happen in the pipeline: timers that are armed fire (the
\* deadline of decodeImage, the backoff sleep) and promise callbacks run.
\* Nothing makes an image signal load or error, or img.decode() settle.
DeadlineFairness ==
    /\ WF_vars(PreloadStart)
    /\ WF_vars(\E u \in Range(urls) : DecodeTimeout(u))
    /\ WF_vars(\E u \in Range(urls) : Wake(u))
    /\ WF_vars(\E u \in Range(urls) : Settle(u))

\* The pipeline with its timers and promise callbacks running.
DeadlineFairSpec == PreloadSpec /\ DeadlineFairness

\* preloadImages as loadProject calls it: only with a non-empty list, and
\* with opts.concurrency as the caller gave it, zero and negative included.
LoadProjectSpecInit ==
    /\ PreloadInitFrom(1..MaxUrls, (0 - MaxBelow)..MaxConc)
    /\ NormIdle /\ PlayIdle

\* The pipeline under loadProject, every attempt settling and every timer
\* and promise callback running.
LoadProjectFairSpec ==
    LoadProjectSpecInit /\ [][PreloadNext]_vars /\ WF_vars(PreloadNext)

NormNext ==
    \/ Construct
    \/ \E t \in QueryTimes : FindScene(t)

NormSpecInit == NormInit /\ PreloadIdle /\ PlayIdle

NormSpec == NormSpecInit /\ [][NormNext]_vars

LoaderNext ==
    \/ LoadManifest
    \/ ConstructLoaded

LoaderSpecInit == LoaderInit /\ PreloadIdle /\ PlayIdle

LoaderSpec == LoaderSpecInit /\ [][LoaderNext]_vars

(***************************************************************************)
(* Claims about the preload pipeline                                       *)
(***************************************************************************)
Unsettled == {u \in Range(urls) : task[u].st \in InFlight}
Holding == {u \in Range(urls) : task[u].st \in InFlight \cup Settled}
PreloadQuiet == ppc = "running" /\ Holding = {}

\* C1: the promise returned by preloadImages is resolved exactly once, never
\* rejected, and only in a state where the queue is empty, the active count
\* is 0 and every url has settled (by success or by exhausting its retries):
\* resolve is called at most once, and it has been called once when no call
\* of preloadImage is left pending.
PreloadResolvesOnce ==
    /\ resolveCalls <= 1
    /\ promise \in {"pending", "resolved"}
    /\ (promise = "resolved") = (resolveCalls = 1)
    /\ promise = "resolved" =>
          /\ queue = <<>> /\ active = 0
          /\ \A u \in Range(urls) : task[u].st = "done"
          /\ resolved = Len(urls)
    /\ PreloadQuiet => resolveCalls = 1

\* C1 witness: resolved after a mix of successes and exhausted urls.
PreloadResolvedMixed ==
    /\ promise = "resolved" /\ Len(urls) >= 2
    /\ logged >= 1 /\ logged < resolved

\* C2: with concurrency >= 1 and retry >= 0, when every attempt eventually
\* settles, preloadImages eventually resolves, however many urls fail on all
\* their attempts, with every url settled.
PreloadEventuallyResolves ==
    <>(promise = "resolved" /\ resolved = Len(urls))

\* C2 witness: 5 urls, concurrency 2, retry 1, resolved with 4 successes and
\* one url that exhausted its retries.
PreloadFiveUrlsOneFailing ==
    /\ Len(urls) = 5 /\ concurrency = 2 /\ retry = 1
    /\ promise = "resolved" /\ resolved = 5 /\ logged = 1

\* C3: the number of started and not yet settled preloadImage calls, and the
\* active count, never exceed concurrency; the active count is the number of
\* calls whose finally handler has not run; urls leave the queue in FIFO
\* order.
PreloadBounded ==
    /\ active <= concurrency
    /\ Cardinality(Unsettled) <= active
    /\ active = Cardinality(Holding)
    /\ started \o queue = urls

\* C3 witness: the bound is reached while urls wait, after some have settled.
PreloadAtBoundWithBacklog ==
    /\ active = concurrency /\ Cardinality(Unsettled) = concurrency
    /\ queue # <<>> /\ resolved >= 1

\* C4: preloadImage makes at most retry+1 attempts, starts an attempt after
\* the first only from the backoff that follows a failed attempt, makes no
\* attempt after a success, handles a timeout and a source error the same
\* way, and reports failure only when retry+1 attempts have failed.
AttemptInvariant ==
    \A u \in Range(urls) :
        LET t == task[u]
        IN  /\ t.tries <= retry + 1
            /\ t.st \in {"loading", "decoding"} => t.tries = t.attempt + 1
            /\ t.st = "sleeping" => t.tries = t.attempt + 1 /\ t.lastErr \in Fail
            /\ t.st = "rejected" =>
                  t.tries = retry + 1 /\ t.attempt = retry + 1 /\ t.lastErr \in Fail

AttemptStep ==
    \A u \in Range(urls) :
        LET t == task[u]
            n == task'[u]
        IN  /\ n.tries > t.tries =>
                  /\ n.tries = t.tries + 1
                  /\ t.st = IF t.tries = 0 THEN "queued" ELSE "sleeping"
            /\ t.st \in {"fulfilled", "done"} => n.st \in {t.st, "done"}
            /\ n.lastErr # t.lastErr /\ n.lastErr \in Fail =>
                  /\ t.st = "loading"
                  /\ n = [t EXCEPT !.st = "sleeping", !.lastErr = n.lastErr]

PreloadImageRetries == []AttemptInvariant /\ [][AttemptStep]_vars

\* C4 witness: a url reported as failed after a timeout on its last attempt,
\* with retry = 1.
PreloadImageExhausted ==
    \E u \in Range(urls) :
        /\ retry = 1 /\ task[u].st = "rejected"
        /\ task[u].tries = 2 /\ task[u].lastErr = "timeout"

(***************************************************************************)
(* Claims about the normalizers and #findSceneIndexAt                      *)
(***************************************************************************)
Scenes == manifest.scenes

\* t lies in the half-open interval [s.t, s.t + s.d) of scene s; an interval
\* with a NaN bound contains nothing.
Contains(s, t) ==
    /\ s.t.k = "number" /\ s.d.k = "number" /\ t.k = "number"
    /\ s.t.v <= t.v /\ t.v < s.t.v + s.d.v

Matching == {i \in 1..Len(Scenes) : Contains(Scenes[i], found.t)}

\* C5: #findSceneIndexAt(t) returns the lowest index whose half-open interval
\* [t_i, t_i + d_i) contains t, and -1 exactly when no interval contains t.
FindSceneLowestMatch ==
    found # NoCall =>
        IF Matching = {}
          THEN found.idx = -1
          ELSE /\ found.idx + 1 \in Matching
               /\ \A j \in Matching : found.idx + 1 <= j

\* C5 witness: a time that lies in two overlapping intervals, answered with
\* the lower index although a higher one matches too.
FindSceneInOverlap ==
    /\ found # NoCall /\ Cardinality(Matching) >= 2
    /\ found.idx = 0 /\ 3 \in Matching

Explicit(i) == TypeofNumber(raw[i].t)

\* C6: after #normalizeManifest a scene without a numeric t starts at the
\* previous scene's resolved t plus its d (0 for the first scene), and a scene
\* with a numeric t keeps it.
AutoChained ==
    manifest.st = "ok" =>
        \A i \in 1..Len(raw) :
            Scenes[i].t =
                IF Explicit(i) THEN raw[i].t
                ELSE IF i = 1 THEN Num(0)
                ELSE JsAdd(Scenes[i - 1].t, Scenes[i - 1].d)

\* C6 witness: durations [2, 3, 2] without t resolve to starts [0, 2, 5].
ChainedTwoThreeTwo ==
    /\ raw = <<[t |-> Undef, d |-> Num(2)], [t |-> Undef, d |-> Num(3)],
               [t |-> Undef, d |-> Num(2)]>>
    /\ manifest.st = "ok"
    /\ [i \in 1..3 |-> Scenes[i].t] = <<Num(0), Num(2), Num(5)>>

\* The sum of the durations of scenes a..b.
RECURSIVE SumD(_, _, _)
SumD(sc, a, b) == IF a > b THEN Num(0) ELSE JsAdd(SumD(sc, a, b - 1), sc[b].d)

\* The nearest scene before i that has an explicit t; 0 when there is none.
LastExplicitBefore(i) ==
    LET E == {j \in 1..(i - 1) : Explicit(j)}
    IN  IF E = {} THEN 0 ELSE CHOOSE j \in E : \A k \in E : k <= j

\* C7 as stated: every scene without an explicit t starts at the sum of the
\* durations of all scenes before it.
StartIsSumOfPrior ==
    manifest.st = "ok" =>
        \A i \in 1..Len(raw) :
            ~Explicit(i) => Scenes[i].t = SumD(Scenes, 1, i - 1)

\* C7 amended: a scene without an explicit t starts at the t of the nearest
\* earlier scene that has an explicit one plus the durations from that scene
\* up to the scene before it, and at the sum of all earlier durations when no
\* earlier scene has an explicit t.
StartIsSumSinceExplicit ==
    manifest.st = "ok" =>
        \A i \in 1..Len(raw) :
            ~Explicit(i) =>
                LET k == LastExplicitBefore(i)
                IN  Scenes[i].t =
                        IF k = 0 THEN SumD(Scenes, 1, i - 1)
                        ELSE JsAdd(raw[k].t, SumD(Scenes, k, i - 1))

\* C7 witness: a scene without t after a scene with an explicit t that is not
\* the sum of the durations before it.
ChainedAfterExplicit ==
    /\ manifest.st = "ok"
    /\ \E i \in 1..Len(raw) :
         /\ ~Explicit(i) /\ LastExplicitBefore(i) > 0
         /\ Scenes[i].t.k = "number"
         /\ Scenes[i].t # SumD(Scenes, 1, i - 1)

\* C8 as stated: the resolved start times of an accepted manifest are
\* non-decreasing in index order.
StartsNonDecreasing ==
    manifest.st = "ok" =>
        \A i \in 1..(Len(Scenes) - 1) : JsLe(Scenes[i].t, Scenes[i + 1].t)

\* A duration that is missing, not a finite number, or not positive.
BadDuration(d) ==
    \/ d.k \in {"undefined", "NaN", "Infinity"}
    \/ d.k = "number" /\ d.v <= 0

\* C9 as stated: the loader's normalizeManifest throws for every raw manifest
\* with a missing, non-positive or non-finite d, and for every other manifest
\* returns scenes whose durations are all at least 0.1 s.
LoaderRejectsBadDurations ==
    loaded # NotBuilt =>
        IF \E i \in 1..Len(raw) : BadDuration(raw[i].d)
          THEN loaded = Threw
          ELSE /\ loaded.st = "ok"
               /\ \A i \in 1..Len(raw) :
                    /\ loaded.scenes[i].d.k = "number"
                    /\ loaded.scenes[i].d.v >= MinDur

(***************************************************************************)
(* Claims about playback                                                   *)
(***************************************************************************)
ActiveEvents ==
    IF activeIndex < 0 THEN {}
    ELSE {reveals.text[i] : i \in DOMAIN reveals.text}
         \cup {reveals.callouts[i] : i \in DOMAIN reveals.callouts}

\* C10 as stated: within one activation of a scene every text and callout
\* event is revealed on the first tick whose local offset has reached its at,
\* and its reveal is performed at most once during that activation.
RevealedOnceWhenDue ==
    \A r \in ActiveEvents : r.n <= 1 /\ r.first # "no"

\* C11 as stated: when stop(true) returns, whether the host or the end of the
\* timeline called it, every text and callout element of the last scene
\* carries is-in, also when the last scene's node was mounted before.
StopToEndShowsAll == finalShown # "part"

\* last.t + last.d + 0.25 of the played manifest.
EndBound ==
    manifest.scenes[Len(manifest.scenes)].t.v
        + manifest.scenes[Len(manifest.scenes)].d.v + Grace

\* C12: once started, a next tick is scheduled exactly as long as the elapsed
\* time of the last tick has not exceeded last.t + last.d + 0.25; the tick
\* that exceeds it has called stop(true), the finalize call for the last
\* scene, and no tick is scheduled after it.  With scenes [0,2), [2,5),
\* [5,7) every tick at an elapsed time in [5, 7) has active index 2 and a
\* tick at 7.3 s has stopped the scheduler.
LoopStopsPastEnd ==
    spc = "started" =>
        /\ now <= EndBound => raf /\ running /\ finalShown = "none"
        /\ now > EndBound => ~raf /\ ~running /\ finalShown # "none"
        /\ raw = ThreeScenes =>
              /\ (now >= 100 /\ now < 140) => activeIndex = 2
              /\ now = 146 => ~raf /\ ~running /\ finalShown # "none"

\* C12 witness: the three-scene schedule was ticked in the last unit before
\* 7 s with scene 2 active (its node is scheduled for removal 18 units after
\* a later tick) and stopped by the tick at 7.3 s.
StoppedAtSevenPointThree ==
    /\ raw = ThreeScenes /\ now = 146 /\ ~running /\ finalShown # "none"
    /\ \E k \in DOMAIN timers : timers[k].index = 2

\* C13 as stated: after a call of stop() has returned the loop performs no
\* tick until start() is called again, whenever stop() was called, also
\* while a start() call was awaiting its warm-up.
NoTickAfterStop == sinceStop # "ticked"

\* A start() call resumes from its warm-up while a playback is in progress.
ResumesOnPlayback ==
    /\ Len(warm') < Len(warm)
    /\ spc = "started" /\ running

\* C14 as stated: a start() call made while the instance is running, or
\* while an earlier start() is still warming, fails or is ignored: there are
\* never two loops with a frame scheduled, and the call resets neither the
\* clock origin nor the active index nor the fired sets of the playback in
\* progress.
StartIgnoredWhileRunning ==
    [][/\ frames' <= 1
       /\ ResumesOnPlayback =>
             /\ t0' = t0 /\ activeIndex' = activeIndex
             /\ firedText' = firedText /\ firedCallout' = firedCallout]_vars

\* C15: whenever #enterScene(n) runs for a scene change from p >= 0 to n,
\* #exitScene(p) has been called before; the same holds for the call that is
\* still suspended on its mount.
ExitBeforeEnter ==
    /\ \A ch \in changes : ch.prev >= 0 => ch.exitFirst
    /\ \A w \in pend : w.prev >= 0 => w.prev \in exited

\* A scene entered after its image made the mount wait, while the node of
\* the scene that was left is still in the DOM with its removal scheduled.
EnteredWhilePrevStillMounted ==
    \E ch \in changes :
        /\ ch.prev >= 0 /\ ch.exitFirst
        /\ sceneNodes[ch.prev] # 0
        /\ nodes[sceneNodes[ch.prev]].attached
        /\ \E k \in DOMAIN timers : timers[k].index = ch.prev
        /\ activeIndex = ch.next
        /\ \E n \in DOMAIN nodes : nodes[n].index = ch.next /\ n > 1

\* C16: #enterScene never runs on a node whose image has neither signalled
\* load or error nor been complete when the node was built.
EnterAfterImageSettled == \A ch \in changes : ch.img = "settled"

\* C17 as stated: after #enterScene(i) no key of scene i, of a text or of a
\* callout event, is in the fired sets, and the keys of the other scenes are
\* the ones that were there before.
EnterClearsSceneKeys == \A ch \in changes : ch.kept = {} /\ ch.others

\* The scene nodes whose container is in the media layer.
Mounted == {n \in DOMAIN nodes : nodes[n].attached}

\* C18 as stated: at every moment at most two scene nodes are mounted.
AtMostTwoMounted == Cardinality(Mounted) <= 2

\* What a full tick leaves behind: the elapsed time and the index resolved
\* from it, the due events of the active scene considered by #tickScene, and
\* on a change of index the exit of the old scene and the node of the new.
RunsFully ==
    LET idx == activeIndex'
        tLocal == now' - manifest.scenes[idx + 1].t.v
    IN  /\ now' = clock' - t0'
        /\ idx = FindSceneIndexAt(manifest.scenes, Num(now'))
        /\ idx >= 0 =>
              /\ \A i \in DOMAIN layout.text :
                    tLocal >= layout.text[i]
                        => reveals'.text[i].first # "none"
              /\ \A i \in DOMAIN layout.callouts :
                    tLocal >= layout.callouts[i]
                        => reveals'.callouts[i].first # "none"
        /\ idx # activeIndex =>
              /\ activeIndex >= 0 => activeIndex \in exited'
              /\ idx >= 0 => sceneNodes'[idx] # 0

\* C19: while a scene mount awaits its image the requested frame callback can
\* run, and a tick taken then runs fully.
PendingMountKeepsTicking ==
    [][/\ (pend # {} /\ running /\ raf) => FrameRuns(TRUE)
       /\ (pend # {} /\ spc = "started" /\ now' # now) => RunsFully]_vars

\* The scheduler has moved on to another scene and revealed one of its
\* events while the mount of an earlier scene still awaits its image.
TickedPastPendingMount ==
    /\ running /\ activeIndex >= 0 /\ now > 0
    /\ \E w \in pend : w.index # activeIndex /\ nodes[w.node].img = "loading"
    /\ \E i \in DOMAIN reveals.text : reveals.text[i].first = "yes"

\* C20 as stated: a start() waiting for its warm-up always gets past it.
WarmEventuallySettles == (spc = "warming") ~> (spc = "started")

\* The url's preloadImage call is inside a decodeImage attempt that has not
\* settled.
AttemptOpen(u) == u \in DOMAIN task /\ task[u].st \in {"loading", "decoding"}

\* C21 as stated: every decodeImage attempt settles, by its deadline at the
\* latest, whether or not the image's load event has been received.
AttemptSettlesByDeadline ==
    \A u \in 1..MaxUrls : AttemptOpen(u) ~> ~AttemptOpen(u)

\* C22 as stated: a scene index that the scheduler has left is never the
\* active index again, and #enterScene runs at most once for each index.
EnteredAtMostOnce ==
    /\ activeIndex >= 0 => activeIndex \notin exited
    /\ \A a, b \in changes : a.next = b.next => a = b

\* The step is the setTimeout callback of #exitScene for timers[k], and the
\* node it captured is no longer in the DOM.
LateRemoval(k) ==
    /\ clock >= timers[k].due
    /\ ~nodes[timers[k].node].attached
    /\ timers' = Without(timers, k)
    /\ Len(nodes') = Len(nodes)

\* C23 as stated: a removal timer that fires after its node has already been
\* removed leaves the registry and the nodes as they are.
LateRemovalIsNoOp ==
    [][\A k \in DOMAIN timers :
          LateRemoval(k) => sceneNodes' = sceneNodes /\ nodes' = nodes]_vars

\* C24: until the warm-up of start() has settled nothing is scheduled and
\* the instance is not running; a warm-up whose images have all signalled
\* load or error lets start() go on, whatever failed; and the step that goes
\* on takes the clock origin, schedules the first frame, and leaves elapsed
\* at 0, the active index at -1 and both fired sets empty.
StartsAfterWarm ==
    /\ [](spc = "warming" =>
            /\ ~running /\ ~raf /\ frames = 0 /\ nodes = <<>>
            /\ \A k \in DOMAIN warm :
                  warm[k].left = 0 => WarmDone(warm[k]))
    /\ [][(spc = "warming" /\ spc' = "started") =>
            /\ \E k \in DOMAIN warm : warm[k].left = 0
            /\ t0' = clock /\ now' = 0 /\ running' /\ raf' /\ frames' = 1
            /\ activeIndex' = -1 /\ firedText' = {} /\ firedCallout' = {}]_vars

\* A two-scene playback about to resume although one warm image failed.
WarmedWithOneError ==
    /\ spc = "warming" /\ Len(manifest.scenes) = 2
    /\ \E k \in DOMAIN warm : warm[k].left = 0 /\ warm[k].failed = 1

\* C25 as stated: #tickScene fires no event of the active scene before
\* #enterScene has been called for its current activation.
NoRevealBeforeEnter == ~reveals.early

\* The events of the active scene that are due at the last tick.
DueText ==
    {i \in DOMAIN layout.text :
        now - manifest.scenes[activeIndex + 1].t.v >= layout.text[i]}
DueCallouts ==
    {i \in DOMAIN layout.callouts :
        now - manifest.scenes[activeIndex + 1].t.v >= layout.callouts[i]}

\* C26 as stated: after a tick of the active scene that came after its
\* #enterScene call, every text and callout event that is due carries is-in.
DueEventsVisible ==
    (/\ activeIndex >= 0 /\ reveals.ticked
     /\ sceneNodes[activeIndex] # 0)
        => /\ DueText \subseteq nodes[sceneNodes[activeIndex]].textIn
           /\ DueCallouts \subseteq nodes[sceneNodes[activeIndex]].calloutIn

\* C27 as stated: once the end of the timeline has called stop(true), the
\* last scene has a registered node that is in the media layer.
LastNodeStaysMounted ==
    (~running /\ finalShown # "none") =>
        /\ sceneNodes[LastIdx] # 0
        /\ nodes[sceneNodes[LastIdx]].attached

\* C28 as stated: while a scene is the active index of the running loop, its
\* registered node is never taken out of the media layer by a removal timer,
\* and a node it had is not unregistered by one.
ActiveNodeNeverRemoved ==
    [][\A k \in DOMAIN timers :
          (/\ running /\ activeIndex >= 0
           /\ timers[k].index = activeIndex
           /\ sceneNodes[activeIndex] = timers[k].node
           /\ timers' = Without(timers, k)
           /\ Len(nodes') = Len(nodes))
              => /\ nodes'[timers[k].node].attached
                 /\ sceneNodes'[activeIndex] = sceneNodes[activeIndex]]_vars

\* C29 as stated: when the end of the timeline has stopped the loop, the
\* elapsed time of the stopping tick is at or past the end of every scene.
StopsAfterEveryScene ==
    (~running /\ finalShown # "none") =>
        \A i \in DOMAIN manifest.scenes :
            now >= manifest.scenes[i].t.v + manifest.scenes[i].d.v

\* C30 as stated: when a suspended #onSceneChange resumes and its
\* #enterScene(i) finds a node, the loop is running and i is the active
\* index.
EnterOnlyWhileActive ==
    [][\A w \in pend :
          (w \notin pend' /\ sceneNodes[w.index] # 0)
              => running /\ activeIndex = w.index]_vars

\* C31 as stated: called through loadProject, with any integer concurrency,
\* preloadImages eventually resolves when every attempt settles.
LoadProjectPreloadResolves == <>(promise = "resolved")

====
